---- MODULE Spec2Model ----
(***************************************************************************)
(* Model of plot_topdown.py: extraction of the "Back-End Bound" percentage *)
(* from the summary files of a results directory, aggregation per app, the *)
(* average, and the rendering of the bar chart.                            *)
(*                                                                         *)
(* Text is a sequence of tokens: the literal "Back-End Bound:" is one      *)
(* token, every other token is one character.  A float is a non-negative   *)
(* multiple of 2^-Scale whose mantissa has at most Prec bits (binary       *)
(* floating point, round to nearest, ties to even; Python's float has 53   *)
(* bits).                                                                  *)
(***************************************************************************)
EXTENDS Integers, Sequences, FiniteSets, TLC

\* ------------------------------------------------------------------ bounds
Prec == 3            \* mantissa bits of the modelled float
Scale == 2           \* the float unit is 2^-Scale
MaxFragments == 2    \* keyword fragments in an enumerated file content
MaxWs == 1           \* whitespace tokens after a keyword in a fragment
MaxNumLen == 2       \* digit/dot tokens in a fragment

\* ------------------------------------------------------------------ text
KW == "Back-End Bound:"
WS == " "
DOT == "."
PCT == "%"
Digits == {"0", "1", "2", "3", "4", "5", "6", "7", "8", "9"}

DigitVal(d) ==
  CASE d = "0" -> 0 [] d = "1" -> 1 [] d = "2" -> 2 [] d = "3" -> 3
    [] d = "4" -> 4 [] d = "5" -> 5 [] d = "6" -> 6 [] d = "7" -> 7
    [] d = "8" -> 8 [] d = "9" -> 9

None == <<>>
Some(v) == <<v>>

RECURSIVE Pow(_, _)
Pow(b, e) == IF e = 0 THEN 1 ELSE b * Pow(b, e - 1)

\* ------------------------------------------------------------------ float
\* Spacing of the floats around k (k in units of 2^-Scale).
RECURSIVE Ulp(_)
Ulp(k) == IF k < Pow(2, Prec) THEN 1 ELSE 2 * Ulp(k \div 2)

\* The float nearest to num/den units, ties to the even mantissa.
Fl(num, den) ==
  LET q  == num \div den
      u  == Ulp(q)
      lo == (q \div u) * u
      hi == lo + u
  IN  IF 2 * num < (lo + hi) * den THEN lo
      ELSE IF 2 * num > (lo + hi) * den THEN hi
      ELSE IF (lo \div u) % 2 = 0 THEN lo ELSE hi

FAdd(a, b) == Fl(a + b, 1)
FDivInt(a, n) == Fl(a, n)
FromInt(n) == Fl(n * Pow(2, Scale), 1)

\* ------------------------------------------------------- float(text)
IsDot(t) == t = DOT
IsDigit(t) == t \in Digits

RECURSIVE IntOf(_)
IntOf(s) ==
  IF Len(s) = 0 THEN 0
  ELSE 10 * IntOf(SubSeq(s, 1, Len(s) - 1)) + DigitVal(s[Len(s)])

DotPos(s) == IF \E i \in 1..Len(s) : s[i] = DOT
             THEN CHOOSE i \in 1..Len(s) : s[i] = DOT
             ELSE Len(s) + 1

\* float() of a text of digits and dots: at most one dot, at least one digit.
ValidFloat(s) ==
  /\ Cardinality({i \in 1..Len(s) : IsDot(s[i])}) <= 1
  /\ Cardinality({i \in 1..Len(s) : IsDigit(s[i])}) >= 1

ParseFloat(s) ==
  LET p    == DotPos(s)
      ip   == SubSeq(s, 1, p - 1)
      fp   == SubSeq(s, p + 1, Len(s))
  IN  Fl(IntOf(ip \o fp) * Pow(2, Scale), Pow(10, Len(fp)))

\* ------------------------------------------------------- re.search
IsSpace(t) == t = WS
IsNumChar(t) == t \in Digits \/ t = DOT

\* Length of the longest run of whitespace (\s+) that starts at i.
RECURSIVE SpaceRun(_, _)
SpaceRun(c, i) ==
  IF i <= Len(c) /\ IsSpace(c[i]) THEN 1 + SpaceRun(c, i + 1) ELSE 0

\* Length of the longest run of digits and dots ([\d.]+) that starts at i.
RECURSIVE NumRun(_, _)
NumRun(c, i) ==
  IF i <= Len(c) /\ IsNumChar(c[i]) THEN 1 + NumRun(c, i + 1) ELSE 0

\* r'Back-End Bound:\s+([\d.]+)%' matched at position i.
MatchAt(c, i) ==
  LET w == SpaceRun(c, i + 1)
      n == NumRun(c, i + 1 + w)
  IN  /\ c[i] = KW
      /\ w >= 1
      /\ n >= 1
      /\ i + 1 + w + n <= Len(c)
      /\ c[i + 1 + w + n] = PCT

Group1(c, i) ==
  LET w == SpaceRun(c, i + 1)
      n == NumRun(c, i + 1 + w)
  IN  SubSeq(c, i + 1 + w, i + w + n)

\* Mutant: the rightmost match instead of the leftmost.
ReSearchLast(c) ==
  IF \E i \in 1..Len(c) : MatchAt(c, i)
  THEN LET i == CHOOSE j \in 1..Len(c) :
                  MatchAt(c, j) /\ \A k \in (j + 1)..Len(c) : ~MatchAt(c, k)
       IN  Some(Group1(c, i))
  ELSE None

\* re.search: the leftmost match, as Some(group 1), or None.
ReSearch(c) ==
  IF \E i \in 1..Len(c) : MatchAt(c, i)
  THEN LET i == CHOOSE j \in 1..Len(c) :
                  MatchAt(c, j) /\ \A k \in 1..(j - 1) : ~MatchAt(c, k)
       IN  Some(Group1(c, i))
  ELSE None

\* ------------------------------------------------------- file nodes
FileNode(c) == [kind |-> "file", readable |-> TRUE, content |-> c]
LockedNode(c) == [kind |-> "file", readable |-> FALSE, content |-> c]
DirNode == [kind |-> "dir", readable |-> TRUE, content |-> <<>>]

\* open(summary_file, 'r') and f.read(): the exception raised, "" for none.
OpenRead(node) ==
  IF node.kind = "dir" THEN "IsADirectoryError"
  ELSE IF ~node.readable THEN "PermissionError"
  ELSE ""

\* The exceptions of the model are all subclasses of Exception.
ExceptionClasses == {"IsADirectoryError", "PermissionError", "ValueError"}

\* lines 21-26, the body of the try: exc is the exception it raises ("" for
\* none), ret what it returns (None when it falls through to line 29).
TryBody(node) ==
  IF OpenRead(node) # ""
  THEN [exc |-> OpenRead(node), ret |-> None]
  ELSE LET m == ReSearch(node.content)
       IN  IF m = None THEN [exc |-> "", ret |-> None]
           ELSE IF ~ValidFloat(m[1]) THEN [exc |-> "ValueError", ret |-> None]
           ELSE [exc |-> "", ret |-> Some(ParseFloat(m[1]))]

\* Mutant: except OSError
CaughtOnlyOSError(exc) == exc \in {"IsADirectoryError", "PermissionError"}

\* line 27: except Exception
Caught(exc) == exc \in ExceptionClasses

\* extract_backend_bound on the node at summary_file: ret is Some(float) or
\* None, err tells whether line 28 printed "Error reading", raised is the
\* exception that leaves the function ("" for none).
extract_backend_bound(node) ==
  LET b == TryBody(node)
  IN  IF b.exc = "" THEN [ret |-> b.ret, err |-> FALSE, raised |-> ""]
      ELSE IF Caught(b.exc) THEN [ret |-> None, err |-> TRUE, raised |-> ""]
      ELSE [ret |-> None, err |-> FALSE, raised |-> b.exc]

\* ------------------------------------------------------- names and paths
Names == {"Average", "bfs_gnutella31", "myapp"}
SummarySuffix == "_topdown_summary.txt"
SubDir == "sub"

\* Code points of the strings the model compares.
Chars(s) ==
  CASE s = "Average" -> <<65, 118, 101, 114, 97, 103, 101>>
    [] s = "bfs_gnutella31" ->
         <<98, 102, 115, 95, 103, 110, 117, 116, 101, 108, 108, 97, 51, 49>>
    [] s = "myapp" -> <<109, 121, 97, 112, 112>>
    [] s = "sub" -> <<115, 117, 98>>
    [] s = "_topdown_summary.txt" ->
         <<95, 116, 111, 112, 100, 111, 119, 110, 95, 115, 117, 109, 109,
           97, 114, 121, 46, 116, 120, 116>>
    [] s = "" -> <<>>

\* A path component: the file name is stem followed by suffix.
Plain(d) == [stem |-> d, suffix |-> ""]
\* Mutant: one fixed summary file name for every directory.
SummaryNameFixed(d) == [stem |-> "myapp", suffix |-> SummarySuffix]
\* f"{app_dir}_topdown_summary.txt"
SummaryName(d) == [stem |-> d, suffix |-> SummarySuffix]
CompChars(c) == Chars(c.stem) \o Chars(c.suffix)

\* Python's str "<": lexicographic on code points, a proper prefix is less.
RECURSIVE SeqLess(_, _)
SeqLess(a, b) ==
  IF Len(b) = 0 THEN FALSE
  ELSE IF Len(a) = 0 THEN TRUE
  ELSE IF a[1] # b[1] THEN a[1] < b[1]
  ELSE SeqLess(Tail(a), Tail(b))

StrLess(a, b) == SeqLess(Chars(a), Chars(b))

\* Mutant: descending order.
RECURSIVE SortedDescending(_)
SortedDescending(S) ==
  IF S = {} THEN <<>>
  ELSE LET m == CHOOSE a \in S : \A b \in S \ {a} : StrLess(b, a)
       IN  <<m>> \o SortedDescending(S \ {m})

\* sorted() of a set of distinct strings.
RECURSIVE Sorted(_)
Sorted(S) ==
  IF S = {} THEN <<>>
  ELSE LET m == CHOOSE a \in S : \A b \in S \ {a} : StrLess(a, b)
       IN  <<m>> \o Sorted(S \ {m})

\* os.path.join(p, c)
Join(p, c) == Append(p, c)
BaseDir == <<>>

\* os.path.exists, os.path.isdir and os.listdir on a file system, which is a
\* function from paths to nodes.
Exists(f, p) == p \in DOMAIN f
IsDir(f, p) == p \in DOMAIN f /\ f[p].kind = "dir"
ListDir(f, p) ==
  {q[Len(q)].stem : q \in {r \in DOMAIN f : Len(r) = Len(p) + 1
                                            /\ SubSeq(r, 1, Len(p)) = p}}

\* get_full_app_name
get_full_app_name(app) ==
  CASE app = "bfs_gnutella31" -> "breadth first search"
    [] app = "dfs_gnutella31" -> "depth first search"
    [] app = "pr_gnutella31" -> "pagerank"
    [] app = "tc_gnutella31" -> "triangle counting"
    [] app = "sssp_ego_fb" -> "single source shortest path"
    [] OTHER -> app

AverageName == "Average"
AverageLabel == "$\\mathbf{Average}$"

\* ------------------------------------------------------- input file systems
Occurrence(num) == <<KW, WS>> \o num \o <<PCT>>

ContentPlain == Occurrence(<<"6">>)
ContentBig == Occurrence(<<"6", "4">>)
ContentTwo == Occurrence(<<"1", ".", "2", "5">>) \o Occurrence(<<"6">>)
ContentBadFirst == Occurrence(<<".">>) \o Occurrence(<<"6">>)
ContentManyDots == Occurrence(<<"1", ".", "2", ".", "3">>)
ContentNoSpace == <<KW, "6", PCT>>

SampleContents ==
  {ContentPlain, ContentBig, ContentTwo, ContentBadFirst, ContentManyDots,
   ContentNoSpace}

Empty == [p \in {} |-> DirNode]

\* What the app directory d may hold at <d>_topdown_summary.txt.
OwnSummary(d) ==
  {Empty}
  \cup {<<Plain(d), SummaryName(d)>> :> DirNode}
  \cup {<<Plain(d), SummaryName(d)>> :> LockedNode(ContentPlain)}
  \cup {<<Plain(d), SummaryName(d)>> :> FileNode(c) : c \in SampleContents}

OtherName(d) == IF d = "myapp" THEN "bfs_gnutella31" ELSE "myapp"

\* Summary files that are not at <d>/<d>_topdown_summary.txt.
Decoy(d) ==
  {Empty}
  \cup {<<Plain(d), SummaryName(OtherName(d))>> :> FileNode(ContentPlain)}
  \cup {(<<Plain(d), Plain(SubDir)>> :> DirNode)
          @@ (<<Plain(d), Plain(SubDir), SummaryName(d)>> :> FileNode(ContentPlain))}

\* The entry named d of base_dir: absent, a regular file, or a directory.
Entry(d) ==
  {Empty}
  \cup {<<Plain(d)>> :> FileNode(ContentPlain)}
  \cup {(<<Plain(d)>> :> DirNode) @@ o @@ x : o \in OwnSummary(d), x \in Decoy(d)}

RECURSIVE Trees(_)
Trees(S) ==
  IF S = {} THEN {Empty}
  ELSE LET d == CHOOSE a \in S : TRUE
       IN  {e @@ t : e \in Entry(d), t \in Trees(S \ {d})}

\* base_dir is missing, a regular file, or a directory tree.
FileSystems ==
  {Empty}
  \cup {BaseDir :> FileNode(ContentPlain)}
  \cup {(BaseDir :> DirNode) @@ t : t \in Trees(Names)}

\* ------------------------------------------------------- formatting
\* f"{v:.1f}": the number of tenths nearest to v, ties to the even tenth.
Format1f(v) ==
  LET num == 10 * v
      den == Pow(2, Scale)
      q   == num \div den
  IN  IF 2 * (num - q * den) < den THEN q
      ELSE IF 2 * (num - q * den) > den THEN q + 1
      ELSE IF q % 2 = 0 THEN q ELSE q + 1

\* ------------------------------------------------------- list helpers
\* Mutant: the sum leaves out the last value.
RECURSIVE SumAll(_)
SumAll(vs) ==
  IF Len(vs) = 0 THEN 0
  ELSE FAdd(SumAll(SubSeq(vs, 1, Len(vs) - 1)), vs[Len(vs)])
SumOffByOne(vs) == SumAll(SubSeq(vs, 1, Len(vs) - 1))

\* sum(values): left to right, starting from 0, each addition rounded.
RECURSIVE Sum(_)
Sum(vs) ==
  IF Len(vs) = 0 THEN 0
  ELSE FAdd(Sum(SubSeq(vs, 1, Len(vs) - 1)), vs[Len(vs)])

\* Mutant: the first value instead of the largest.
MaxFirst(vs) == vs[1]

\* max(values)
Max(vs) == CHOOSE m \in {vs[i] : i \in 1..Len(vs)} :
             \A i \in 1..Len(vs) : vs[i] <= m

\* bar_spacing = 0.1 and the bar positions, in units of 0.05.  The positions
\* are small multiples of 0.05, whose order float rounding cannot change, so
\* they are kept exact.
bar_spacing == 2
XPos(i) == i * bar_spacing
\* Mutant: (len(apps) - 0.5) * bar_spacing
SeparatorXHalfOff(n) == ((2 * n - 1) * bar_spacing) \div 2
SeparatorX(n) == ((2 * n - 3) * bar_spacing) \div 2
Headroom == 5

Ev(e, n, v) == [ev |-> e, name |-> n, val |-> v]
\* Mutant: pdf saved before png.
PlotFilesSwapped == <<"backend_bound_plot.pdf", "backend_bound_plot.png",
                      "backend_bound_plot.eps">>
PlotFiles == <<"backend_bound_plot.png", "backend_bound_plot.pdf",
               "backend_bound_plot.eps">>

\* ------------------------------------------------------- state
VARIABLES
  fs,            \* the file system under base_dir (path -> node)
  pc,            \* position in main()
  todo,          \* entries of sorted(os.listdir(base_dir)) not yet visited
  apps_data,     \* dict: app name -> Back-End Bound
  apps, values, apps_labels, average_value,
  x, separator, y_max,       \* what the chart is drawn with
  files,         \* plot files written so far
  out,           \* stdout lines and file writes, in order
  exit_status,   \* "running", "0" or "1"
  uncaught,      \* the exception that ended main() with a traceback, or ""
  xnode, xresult \* input and result of a single extract_backend_bound call

vars == <<fs, pc, todo, apps_data, apps, values, apps_labels, average_value,
          x, separator, y_max, files, out, exit_status, uncaught, xnode,
          xresult>>

mainVars == <<fs, pc, todo, apps_data, apps, values, apps_labels,
              average_value, x, separator, y_max, files, out, exit_status,
              uncaught>>
chartVars == <<apps, values, apps_labels, average_value, x, separator, y_max>>

EmptyDict == [d \in {} |-> 0]

MainInit ==
  /\ pc = "start"
  /\ todo = <<>>
  /\ apps_data = EmptyDict
  /\ apps = <<>> /\ values = <<>> /\ apps_labels = <<>>
  /\ average_value = None
  /\ x = <<>> /\ separator = None /\ y_max = None
  /\ files = {}
  /\ out = <<>>
  /\ exit_status = "running"
  /\ uncaught = ""

Init ==
  /\ fs \in FileSystems
  /\ MainInit
  /\ xnode = DirNode
  /\ xresult = None

\* lines 46-54: base_dir must exist.
CheckBaseDir ==
  /\ pc = "start"
  /\ IF ~Exists(fs, BaseDir)
     THEN /\ out' = out \o <<Ev("not_found", "", 0), Ev("usage", "", 0)>>
          /\ exit_status' = "1"
          /\ uncaught' = ""
          /\ pc' = "exited"
     ELSE /\ pc' = "listdir"
          /\ UNCHANGED <<out, exit_status, uncaught>>
  /\ UNCHANGED <<fs, todo, apps_data, chartVars, files, xnode, xresult>>

\* line 60: sorted(os.listdir(base_dir)); os.listdir raises NotADirectoryError
\* when base_dir is not a directory, and nothing catches it.
ListEntries ==
  /\ pc = "listdir"
  /\ IF IsDir(fs, BaseDir)
     THEN /\ todo' = Sorted(ListDir(fs, BaseDir))
          /\ pc' = "loop"
          /\ UNCHANGED <<exit_status, uncaught>>
     ELSE /\ exit_status' = "1"
          /\ uncaught' = "NotADirectoryError"
          /\ pc' = "exited"
          /\ UNCHANGED todo
  /\ UNCHANGED <<fs, apps_data, chartVars, files, out, xnode, xresult>>

\* lines 60-71: one iteration of the loop.  An exception that leaves
\* extract_backend_bound ends main() with a traceback.
VisitEntry ==
  /\ pc = "loop"
  /\ todo # <<>>
  /\ LET app_dir      == Head(todo)
         app_path     == Join(BaseDir, Plain(app_dir))
         summary_file == Join(app_path, SummaryName(app_dir))
     IN  IF ~IsDir(fs, app_path) \/ ~Exists(fs, summary_file)
         THEN UNCHANGED <<apps_data, out, pc, exit_status, uncaught>>
         ELSE LET r == extract_backend_bound(fs[summary_file])
                  e == IF r.err THEN <<Ev("error_reading", app_dir, 0)>>
                       ELSE <<>>
              IN  IF r.raised # ""
                  THEN /\ exit_status' = "1"
                       /\ uncaught' = r.raised
                       /\ pc' = "exited"
                       /\ UNCHANGED <<apps_data, out>>
                  ELSE IF r.ret # None
                  THEN /\ apps_data' = (app_dir :> r.ret[1]) @@ apps_data
                       /\ out' = out \o e \o <<Ev("found", app_dir, r.ret[1])>>
                       /\ UNCHANGED <<pc, exit_status, uncaught>>
                  ELSE /\ out' = out \o e
                       /\ UNCHANGED <<apps_data, pc, exit_status, uncaught>>
  /\ todo' = Tail(todo)
  /\ UNCHANGED <<fs, chartVars, files, xnode, xresult>>

\* Mutant: the check for an empty apps_data is missing.
CheckDataNoExit ==
  /\ pc = "loop"
  /\ todo = <<>>
  /\ pc' = "aggregate"
  /\ UNCHANGED <<fs, todo, apps_data, chartVars, files, out, exit_status,
                 uncaught, xnode, xresult>>

\* lines 73-75: nothing recorded.
CheckData ==
  /\ pc = "loop"
  /\ todo = <<>>
  /\ IF DOMAIN apps_data = {}
     THEN /\ out' = Append(out, Ev("no_data", "", 0))
          /\ exit_status' = "1"
          /\ uncaught' = ""
          /\ pc' = "exited"
     ELSE /\ pc' = "aggregate"
          /\ UNCHANGED <<out, exit_status, uncaught>>
  /\ UNCHANGED <<fs, todo, apps_data, chartVars, files, xnode, xresult>>

\* lines 77-89: sorted apps, their values, the average, the labels.
Aggregate ==
  /\ pc = "aggregate"
  /\ LET as == Sorted(DOMAIN apps_data)
         vs == [i \in 1..Len(as) |-> apps_data[as[i]]]
         av == FDivInt(Sum(vs), Len(vs))
     IN  /\ average_value' = Some(av)
         /\ apps' = Append(as, AverageName)
         /\ values' = Append(vs, av)
         /\ apps_labels' = [i \in 1..Len(as) |-> get_full_app_name(as[i])]
                             \o <<AverageLabel>>
  /\ pc' = "table"
  /\ UNCHANGED <<fs, todo, apps_data, x, separator, y_max, files, out,
                 exit_status, uncaught, xnode, xresult>>

\* lines 91-99: the summary statistics table.
PrintTable ==
  /\ pc = "table"
  /\ out' = out \o <<Ev("table_header", "", 0)>>
                \o [i \in 1..(Len(apps) - 1) |->
                      Ev("row", get_full_app_name(apps[i]), Format1f(values[i]))]
                \o <<Ev("table_average", "Average", Format1f(average_value[1]))>>
  /\ pc' = "render"
  /\ UNCHANGED <<fs, todo, apps_data, chartVars, files, exit_status, uncaught, xnode,
                 xresult>>

\* lines 101-150: bar positions, separator, y range.
Render ==
  /\ pc = "render"
  /\ x' = [i \in 1..Len(apps) |-> XPos(i - 1)]
  /\ separator' = IF Len(apps) > 1 THEN Some(SeparatorX(Len(apps))) ELSE None
  /\ y_max' = Some(FAdd(Max(values), FromInt(Headroom)))
  /\ pc' = "save"
  /\ UNCHANGED <<fs, todo, apps_data, apps, values, apps_labels,
                 average_value, files, out, exit_status, uncaught, xnode, xresult>>

\* lines 153-155: plt.savefig, one file per step, in source order.
SaveFile(i) ==
  /\ pc = "save"
  /\ Cardinality(files) = i - 1
  /\ files' = files \cup {PlotFiles[i]}
  /\ out' = Append(out, Ev("savefig", PlotFiles[i], 0))
  /\ UNCHANGED <<fs, pc, todo, apps_data, chartVars, exit_status, uncaught, xnode,
                 xresult>>

SavePng == SaveFile(1)
SavePdf == SaveFile(2)
SaveEps == SaveFile(3)

\* lines 157-162: the closing message, plt.show(), and the normal return.
PrintSaved ==
  /\ pc = "save"
  /\ Cardinality(files) = Len(PlotFiles)
  /\ out' = Append(out, Ev("plots_saved", "", 0))
  /\ exit_status' = "0"
  /\ uncaught' = ""
  /\ pc' = "done"
  /\ UNCHANGED <<fs, todo, apps_data, chartVars, files, xnode, xresult>>

Next ==
  \/ CheckBaseDir
  \/ ListEntries
  \/ VisitEntry
  \/ CheckData
  \/ Aggregate
  \/ PrintTable
  \/ Render
  \/ SavePng
  \/ SavePdf
  \/ SaveEps
  \/ PrintSaved

Spec == Init /\ [][Next]_vars

\* ------------------------------------------------------- one extraction
\* File contents made of keyword fragments: the keyword, some whitespace,
\* some digits and dots, and possibly a percent sign.
NumAlphabet == {"1", DOT}
NumTexts == UNION {[1..n -> NumAlphabet] : n \in 0..MaxNumLen}
Spaces(n) == [i \in 1..n |-> WS]
Fragments ==
  {<<KW>> \o Spaces(w) \o t \o (IF p THEN <<PCT>> ELSE <<>>)
     : w \in 0..MaxWs, t \in NumTexts, p \in BOOLEAN}

RECURSIVE FragmentSeqs(_)
FragmentSeqs(n) ==
  IF n = 0 THEN {<<>>}
  ELSE LET shorter == FragmentSeqs(n - 1)
       IN  shorter \cup {c \o f : c \in shorter, f \in Fragments}

\* A summary_file to extract from: a directory, an unreadable file, or a
\* readable file of at most n fragments.
ExtractInputs(n) ==
  {DirNode, LockedNode(ContentPlain)}
  \cup {FileNode(c) : c \in FragmentSeqs(n)}

InitExtract ==
  /\ fs = Empty
  /\ MainInit
  /\ xnode \in ExtractInputs(MaxFragments)
  /\ xresult = None

\* One call of extract_backend_bound(summary_file).
ExtractCall ==
  /\ xresult = None
  /\ xresult' = Some(extract_backend_bound(xnode))
  /\ UNCHANGED <<mainVars, xnode>>

NextExtract == ExtractCall

SpecExtract == InitExtract /\ [][NextExtract]_vars

\* =================================================================
\* Properties
\* =================================================================
Recorded == DOMAIN apps_data
BaseIsDir == BaseDir \in DOMAIN fs /\ fs[BaseDir].kind = "dir"

\* The loop over sorted(os.listdir(base_dir)) has run to its end.
LoopDone ==
  \/ pc = "loop" /\ todo = <<>>
  \/ pc \in {"aggregate", "table", "render", "save", "done"}
  \/ pc = "exited" /\ BaseIsDir /\ uncaught = ""

\* The chart data exist (lines 78-89 have run); the chart is drawn.
Aggregated == pc \in {"table", "render", "save", "done"}
Rendered == pc \in {"save", "done"}

\* Path of <base_dir>/<d>/<d>_topdown_summary.txt, spelled out.
OwnSummaryPath(d) ==
  <<[stem |-> d, suffix |-> ""], [stem |-> d, suffix |-> "_topdown_summary.txt"]>>

\* d is an immediate directory entry of base_dir holding its summary file.
HasOwnSummary(d) ==
  /\ <<[stem |-> d, suffix |-> ""]>> \in DOMAIN fs
  /\ fs[<<[stem |-> d, suffix |-> ""]>>].kind = "dir"
  /\ OwnSummaryPath(d) \in DOMAIN fs

\* C1: after the traversal loop, apps_data maps d to v exactly when d is a
\* directory directly under base_dir, <d>/<d>_topdown_summary.txt exists and
\* extract_backend_bound returns the non-None value v for it; before the end
\* of the loop apps_data never holds any other entry.
C1_AppsDataIsExactlyTheExtractedSummaries ==
  LET Yields(d) == /\ HasOwnSummary(d)
                   /\ extract_backend_bound(fs[OwnSummaryPath(d)]).ret # None
  IN  /\ \A d \in Recorded :
           /\ Yields(d)
           /\ apps_data[d] = extract_backend_bound(fs[OwnSummaryPath(d)]).ret[1]
      /\ LoopDone => Recorded = {d \in Names : Yields(d)}

\* A run where one directory is recorded while a regular file, a directory
\* with a summary of another name and a directory with a nested summary are
\* left out.
C1_Witness ==
  /\ LoopDone
  /\ Recorded = {"bfs_gnutella31"}
  /\ <<Plain("Average")>> \in DOMAIN fs
  /\ fs[<<Plain("Average")>>].kind = "file"
  /\ <<Plain("myapp"), SummaryName("bfs_gnutella31")>> \in DOMAIN fs
  /\ <<Plain("bfs_gnutella31"), Plain(SubDir), SummaryName("bfs_gnutella31")>>
       \in DOMAIN fs

\* ---- outcomes
NotFoundExit ==
  /\ exit_status = "1" /\ uncaught = ""
  /\ out = <<Ev("not_found", "", 0), Ev("usage", "", 0)>>
NoDataExit ==
  /\ exit_status = "1" /\ uncaught = ""
  /\ Len(out) >= 1 /\ out[Len(out)].ev = "no_data"
Completed ==
  /\ exit_status = "0" /\ uncaught = ""
  /\ files = {"backend_bound_plot.png", "backend_bound_plot.pdf",
              "backend_bound_plot.eps"}

\* ---- occurrences of the pattern, stated position by position
NumChars == Digits \cup {DOT}
OccursAt(c, i, w, n) ==
  /\ w >= 1 /\ n >= 1
  /\ i + w + n + 1 <= Len(c)
  /\ c[i] = KW
  /\ \A k \in 1..w : c[i + k] = WS
  /\ \A k \in 1..n : c[i + w + k] \in NumChars
  /\ c[i + w + n + 1] = PCT
\* Candidates <<i, w, n>>: a keyword at i, its whitespace ending at i + w,
\* a percent sign at i + w + n + 1.
Occurrences(c) ==
  LET L == Len(c)
      starts == {k \in 1..L : c[k] = KW}
      ends   == {k \in 1..L : c[k] = PCT}
      cands  == UNION {{<<i, w, e - i - w - 1>> :
                          w \in {v \in 1..(e - i - 2) :
                                   c[i + v] = WS /\ c[i + v + 1] # WS}}
                       : <<i, e>> \in {p \in starts \X ends : p[1] + 2 < p[2]}}
  IN  {o \in cands : OccursAt(c, o[1], o[2], o[3])}
NumberOf(c, o) == SubSeq(c, o[1] + o[2] + 1, o[1] + o[2] + o[3])
FirstOf(occ) == CHOOSE o \in occ : \A o2 \in occ : o[1] <= o2[1]
FirstOccurrence(c) == FirstOf(Occurrences(c))
WellFormed(t) ==
  /\ Cardinality({k \in 1..Len(t) : t[k] = DOT}) <= 1
  /\ \E k \in 1..Len(t) : t[k] # DOT

\* The summary node yields no value: unreadable, no occurrence of the
\* pattern, or a first occurrence whose number is not a float.
Unusable(node) ==
  \/ node.kind # "file"
  \/ ~node.readable
  \/ LET occ == Occurrences(node.content)
     IN  \/ occ = {}
         \/ ~WellFormed(NumberOf(node.content, FirstOf(occ)))

\* The traversal loop has visited every entry and main() is at line 73.
TraversalEnd == pc = "loop" /\ todo = <<>>

\* C3: no exception of extract_backend_bound ends main(); an app whose
\* summary file is unreadable, has no match or has a malformed number is
\* left out of apps_data, and the apps after it are still recorded.
C3_ExtractionIsBestEffort ==
  /\ uncaught \in {"", "NotADirectoryError"}
  /\ BaseIsDir => uncaught = ""
  /\ BaseIsDir => pc # "exited" \/ NoDataExit
  /\ \A d \in Recorded : ~Unusable(fs[OwnSummaryPath(d)])
  /\ TraversalEnd =>
       \A d \in Names \ Recorded :
         HasOwnSummary(d) => Unusable(fs[OwnSummaryPath(d)])

\* A run where the first directory's number is malformed ("1.2.3"), the
\* second's file is unreadable, and the third is recorded all the same.
C3_Witness ==
  /\ TraversalEnd
  /\ HasOwnSummary("Average")
  /\ fs[OwnSummaryPath("Average")] = FileNode(ContentManyDots)
  /\ HasOwnSummary("bfs_gnutella31")
  /\ ~fs[OwnSummaryPath("bfs_gnutella31")].readable
  /\ Recorded = {"myapp"}
  /\ Len(out) >= 3
  /\ out[1].ev = "error_reading" /\ out[2].ev = "error_reading"
  /\ out[3].ev = "found"

\* C6: on a readable file the result is decided by the leftmost occurrence
\* of the pattern alone: its number if that is a float, None if it is not,
\* whatever the later occurrences are; None when there is no occurrence.
C6_FirstOccurrenceDecides ==
  (xresult # None /\ xnode.kind = "file" /\ xnode.readable) =>
    LET c   == xnode.content
        occ == Occurrences(c)
    IN  IF occ = {} THEN xresult[1].ret = None
        ELSE LET t == NumberOf(c, FirstOf(occ))
             IN  xresult[1].ret =
                   IF WellFormed(t) THEN Some(ParseFloat(t)) ELSE None

\* Two occurrences, the first malformed and the second a float: None.
C6_Witness ==
  /\ xresult # None
  /\ xnode.kind = "file"
  /\ Cardinality(Occurrences(xnode.content)) = 2
  /\ \E o \in Occurrences(xnode.content) :
       /\ o # FirstOccurrence(xnode.content)
       /\ WellFormed(NumberOf(xnode.content, o))
  /\ ~WellFormed(NumberOf(xnode.content, FirstOccurrence(xnode.content)))
  /\ xresult[1].ret = None

\* ---- the average
\* The float sum of the recorded values, added in ascending order of name.
RECURSIVE SumByName(_)
SumByName(S) ==
  IF S = {} THEN 0
  ELSE LET m == CHOOSE a \in S : \A b \in S \ {a} : StrLess(b, a)
       IN  Fl(SumByName(S \ {m}) + apps_data[m], 1)

\* sum / count over the recorded apps, each once, as a float.
MeanOfRecorded == Fl(SumByName(Recorded), Cardinality(Recorded))

\* What line 99 printed for 'Average', in tenths.
PrintedAverage ==
  LET i == CHOOSE k \in 1..Len(out) : out[k].ev = "table_average"
  IN  out[i].val
PlottedAverage == values[Len(values)]
Abs(n) == IF n < 0 THEN -n ELSE n

\* C2 as stated: from the table on, the Average that is plotted and the
\* Average that is printed both equal sum / count of the recorded values.
C2_PrintedAndPlottedAverageIsTheMean ==
  pc \in {"render", "save", "done"} =>
    /\ PlottedAverage = MeanOfRecorded
    /\ PrintedAverage * Pow(2, Scale) = 10 * MeanOfRecorded

\* C2 amended: the plotted Average equals sum / count of the recorded values
\* (each once, the average not among them); the printed Average is that
\* value rounded to one decimal place.
C2_PlottedIsTheMeanPrintedIsRounded ==
  pc \in {"render", "save", "done"} =>
    /\ PlottedAverage = MeanOfRecorded
    /\ average_value = Some(MeanOfRecorded)
    /\ 2 * Abs(PrintedAverage * Pow(2, Scale) - 10 * MeanOfRecorded)
         <= Pow(2, Scale)

\* A finished run over three apps with different values.
C2_Witness ==
  /\ pc = "done"
  /\ Cardinality(Recorded) = 3
  /\ Cardinality({apps_data[d] : d \in Recorded}) = 3
  /\ PlottedAverage = MeanOfRecorded

\* C4: a run of main() that has ended has ended in one of three ways:
\* status 1 after 'Directory ... not found', status 1 after 'No data found',
\* or normal completion with the three plot files saved.
C4_OnlyThreeOutcomes ==
  pc \in {"exited", "done"} => NotFoundExit \/ NoDataExit \/ Completed

\* C5: an exit with status 1 happens before any aggregation or rendering:
\* no plot file is written and no average computed; the average is only
\* ever computed over at least one value.
C5_ErrorExitsPrecedeAggregation ==
  /\ exit_status = "1" =>
       /\ files = {}
       /\ \A i \in 1..Len(out) : out[i].ev # "savefig"
       /\ average_value = None /\ values = <<>> /\ y_max = None
  /\ pc = "aggregate" => Cardinality(Recorded) >= 1
  /\ average_value # None => Len(values) - 1 >= 1

\* The 'No data found' exit of a run that did visit a summary file.
C5_Witness ==
  /\ NoDataExit
  /\ pc = "exited"
  /\ \E d \in Names : HasOwnSummary(d)
  /\ files = {}

\* ---- the chart
KnownNames == {"bfs_gnutella31", "dfs_gnutella31", "pr_gnutella31",
               "tc_gnutella31", "sssp_ego_fb"}

\* C7: with n >= 1 recorded apps, apps, values and apps_labels (and x, once
\* drawn) have length n + 1; the first n positions are the recorded apps in
\* ascending order of name with their values and display names, the last
\* position is the Average.
C7_ChartListsAreAligned ==
  Aggregated =>
    LET n == Cardinality(Recorded)
    IN  /\ n >= 1
        /\ Len(apps) = n + 1 /\ Len(values) = n + 1 /\ Len(apps_labels) = n + 1
        /\ Rendered => Len(x) = n + 1
        /\ \A i \in 1..n :
             /\ apps[i] \in Recorded
             /\ values[i] = apps_data[apps[i]]
             /\ apps[i] \notin KnownNames => apps_labels[i] = apps[i]
             /\ apps[i] = "bfs_gnutella31" =>
                  apps_labels[i] = "breadth first search"
        /\ \A i \in 1..n : \A j \in 1..n :
             i < j => SeqLess(Chars(apps[i]), Chars(apps[j]))
        /\ apps[n + 1] = "Average"
        /\ values[n + 1] = average_value[1]
        /\ apps_labels[n + 1] = "$\\mathbf{Average}$"

\* A drawn chart of three apps, one of them with a mapped name.
C7_Witness ==
  /\ pc = "done"
  /\ Len(x) = 4
  /\ apps = <<"Average", "bfs_gnutella31", "myapp", "Average">>
  /\ apps_labels[2] = "breadth first search"

\* C8: a drawn chart always has the separator, strictly between the last
\* app bar and the Average bar.
C8_SeparatorBetweenLastAppAndAverage ==
  Rendered =>
    /\ separator # None
    /\ Len(x) >= 2
    /\ x[Len(x) - 1] < separator[1]
    /\ separator[1] < x[Len(x)]

\* The smallest chart: one app and the Average.
C8_Witness ==
  /\ pc = "done"
  /\ Len(x) = 2
  /\ separator = Some(1)

AppValues == {values[i] : i \in 1..(Len(values) - 1)}
AllValues == {values[i] : i \in 1..Len(values)}
Largest(S) == CHOOSE m \in S : \A v \in S : v <= m
Smallest(S) == CHOOSE m \in S : \A v \in S : m <= v

\* C9 as stated: every plotted value is >= 0 and < y_max; the average lies
\* between the smallest and the largest app value, so max(values) is the
\* largest app value.
C9_BarsBelowYMaxAverageWithinRange ==
  Rendered =>
    /\ \A v \in AllValues : 0 <= v /\ v < y_max[1]
    /\ Smallest(AppValues) <= average_value[1]
    /\ average_value[1] <= Largest(AppValues)
    /\ Largest(AllValues) = Largest(AppValues)

\* C9 amended: every plotted value is >= 0 and <= y_max, where y_max is the
\* float nearest to the largest plotted value (app or Average) plus 5; it
\* is < y_max whenever every plotted value is below 2^Prec, where the
\* floats are at most 1 apart and adding 5 is not absorbed.
C9_BarsWithinYMax ==
  Rendered =>
    /\ \A v \in AllValues : 0 <= v /\ v <= y_max[1]
    /\ y_max[1] = Fl(Largest(AllValues) + 5 * Pow(2, Scale), 1)
    /\ (\A v \in AllValues : v < Pow(2, Prec) * Pow(2, Scale))
         => \A v \in AllValues : v < y_max[1]

\* A drawn chart of two different small values.
C9_Witness ==
  /\ pc = "done"
  /\ Cardinality(AppValues) = 2
  /\ \A v \in AllValues : v < Pow(2, Prec) * Pow(2, Scale) /\ v < y_max[1]

\* ---- order of the output
IsFound(e) == e.ev = "found"
IsSave(e) == e.ev = "savefig"
TableEvents == {"table_header", "row", "table_average"}
Positions(evs) == {i \in 1..Len(out) : out[i].ev \in evs}

\* C10: one 'Found' line per recorded app, in ascending order of name; the
\* 'Found' lines precede the table, the table precedes every file write, the
\* files are written in the order png, pdf, eps, and the closing message
\* follows all three.
C10_OutputOrder ==
  LET saves == SelectSeq(out, IsSave)
      order == <<"backend_bound_plot.png", "backend_bound_plot.pdf",
                 "backend_bound_plot.eps">>
  IN  /\ {e.name : e \in {out[i] : i \in Positions({"found"})}} = Recorded
      /\ Len(SelectSeq(out, IsFound)) = Cardinality(Recorded)
      /\ \A i \in Positions({"found"}) : \A j \in Positions({"found"}) :
           i < j => StrLess(out[i].name, out[j].name)
      /\ \A i \in Positions({"found"}) : \A j \in Positions(TableEvents) : i < j
      /\ \A i \in Positions(TableEvents) : \A j \in Positions({"savefig"}) : i < j
      /\ Positions({"savefig"}) # {} => Positions({"table_average"}) # {}
      /\ Len(saves) <= 3
      /\ \A k \in 1..Len(saves) : saves[k].name = order[k]
      /\ \A j \in Positions({"plots_saved"}) :
           /\ Len(saves) = 3
           /\ \A i \in Positions({"savefig"}) : i < j
      /\ pc = "done" => Cardinality(Positions({"plots_saved"})) = 1

\* A finished run that printed three 'Found' lines.
C10_Witness ==
  /\ pc = "done"
  /\ Len(SelectSeq(out, IsFound)) = 3
  /\ out[Len(out)].ev = "plots_saved"

====
